---------------------------- MODULE Spec2Model ----------------------------
(***************************************************************************)
(* Model of the remark plugin remarkAsciiSlugs (src/lib/remark-ascii-slugs *)
(* .mjs, kept here as src/unnamed/part_000) of the blog repository.        *)
(*                                                                         *)
(* A string is a sequence of characters; a character is a one-character    *)
(* TLA+ string for ASCII and "Uxxxx" for a non-ASCII code point.  A        *)
(* document tree is a nested record; a node is named by its path, the      *)
(* sequence of child indexes leading to it from the root.  An optional     *)
(* JavaScript property is a sequence of length 0 (undefined) or 1.         *)
(***************************************************************************)
EXTENDS Integers, Sequences, FiniteSets, TLC

VARIABLES
  tree,         \* tree[d]: the document tree invocation d works on (mutated in place)
  parsed,       \* parsed[d]: the tree as the parser handed it over (history)
  occurrences,  \* occurrences[d]: slugger.occurrences of invocation d's Slugger
  stack,        \* stack[d]: paths of the nodes visit() has still to enter, next first
  pc,           \* pc[d]: "idle", "visiting", "done" or "failed" (an error was thrown)
  log,          \* log[d]: one record per visitor call of the current call (history)
  runs,         \* runs[d]: how many times the transformer was called on tree[d]
  given         \* given[d]: the tree as it was when the current call began (history)

vars == <<tree, parsed, occurrences, stack, pc, log, runs, given>>

\* Two documents go through the pipeline; the transformer is called on each, and
\* may be called again on the tree it has processed.
Invocations == {1, 2}

(***************************************************************************)
(* Bounds of the model.                                                    *)
(***************************************************************************)
MaxHeadings == 3   \* headings per document in the registry documents
MaxBlocks == 2     \* top-level blocks per document in the nested documents
MaxKids == 2       \* direct children per heading in the rich-heading documents
MaxTextLen == 3    \* characters per heading text in the text documents
MaxRuns == 2       \* calls of the transformer on one tree

(***************************************************************************)
(* Characters.                                                             *)
(***************************************************************************)
\* Precomposed accented letters (all have a canonical decomposition).
a_acute == "U00E1"
A_acute == "U00C1"
a_tilde == "U00E3"
c_cedil == "U00E7"
i_acute == "U00ED"
\* Combining marks of the block U+0300-U+036F.
comb_acute == "U0301"
comb_tilde == "U0303"
comb_cedil == "U0327"
\* A letter with no canonical decomposition, and a symbol.
o_slash == "U00F8"
arrow == "U2192"

\* String.prototype.normalize("NFD") on one code point: canonical decomposition.
Decompose(c) ==
  CASE c = a_acute -> <<"a", comb_acute>>
    [] c = A_acute -> <<"A", comb_acute>>
    [] c = a_tilde -> <<"a", comb_tilde>>
    [] c = c_cedil -> <<"c", comb_cedil>>
    [] c = i_acute -> <<"i", comb_acute>>
    [] OTHER -> <<c>>

\* The character class [\u0300-\u036f] of stripDiacritics.
CombiningMarks == {comb_acute, comb_tilde, comb_cedil}

\* String.prototype.toLowerCase on one code point.
ToLower(c) ==
  CASE c = "A" -> "a"
    [] c = "B" -> "b"
    [] c = "G" -> "g"
    [] c = "I" -> "i"
    [] c = "N" -> "n"
    [] c = "S" -> "s"
    [] c = "V" -> "v"
    [] c = A_acute -> a_acute
    [] OTHER -> c

\* Characters github-slugger's regex deletes: punctuation (other than "-" and
\* connector punctuation), symbols, controls, separators other than " ".
SluggerRemoved == {"!", ".", ":", "?", "*", arrow}

DigitChar == <<"0", "1", "2", "3", "4", "5", "6", "7", "8", "9">>

(***************************************************************************)
(* Strings.                                                                *)
(***************************************************************************)
RECURSIVE Join(_)
\* Array.prototype.join(""): the strings of a sequence, concatenated.
Join(strs) ==
  IF strs = <<>> THEN <<>> ELSE Head(strs) \o Join(Tail(strs))

RECURSIVE NumberToString(_)
\* The decimal digits of a natural number ('-' + occurrences[originalSlug]).
NumberToString(n) ==
  IF n < 10 THEN <<DigitChar[n + 1]>>
  ELSE NumberToString(n \div 10) \o <<DigitChar[(n % 10) + 1]>>

\* Mutant of NormalizeNFD: no decomposition (the string is left composed).
NormalizeNone(str) == str

\* str.normalize("NFD")
NormalizeNFD(str) == Join([i \in 1..Len(str) |-> Decompose(str[i])])


\* stripDiacritics(str): str.normalize("NFD").replace(/[\u0300-\u036f]/g, "")
stripDiacritics(str) ==
  SelectSeq(NormalizeNFD(str), LAMBDA c : c \notin CombiningMarks)

RECURSIVE CollapseHyphens(_)
\* s with every run of hyphens replaced by one hyphen.
CollapseHyphens(s) ==
  IF Len(s) < 2 THEN s
  ELSE IF s[1] = "-" /\ s[2] = "-" THEN CollapseHyphens(Tail(s))
       ELSE <<s[1]>> \o CollapseHyphens(Tail(s))

RECURSIVE TrimHyphens(_)
\* s without its leading and trailing hyphens.
TrimHyphens(s) ==
  IF s = <<>> THEN s
  ELSE IF s[1] = "-" THEN TrimHyphens(Tail(s))
       ELSE IF s[Len(s)] = "-" THEN TrimHyphens(SubSeq(s, 1, Len(s) - 1))
            ELSE s

\* Mutant of slug: leading and trailing hyphens are trimmed.
slugTrimmed(value) ==
  LET lowered == [i \in 1..Len(value) |-> ToLower(value[i])]
      kept == SelectSeq(lowered, LAMBDA c : c \notin SluggerRemoved)
  IN TrimHyphens([i \in 1..Len(kept) |-> IF kept[i] = " " THEN "-" ELSE kept[i]])

\* Mutant of slug: runs of hyphens are collapsed into one.
slugCollapsing(value) ==
  LET lowered == [i \in 1..Len(value) |-> ToLower(value[i])]
      kept == SelectSeq(lowered, LAMBDA c : c \notin SluggerRemoved)
  IN CollapseHyphens([i \in 1..Len(kept) |-> IF kept[i] = " " THEN "-" ELSE kept[i]])

\* github-slugger's slug(value): value.toLowerCase().replace(regex, '').replace(/ /g, '-')
slug(value) ==
  LET lowered == [i \in 1..Len(value) |-> ToLower(value[i])]
      kept == SelectSeq(lowered, LAMBDA c : c \notin SluggerRemoved)
  IN [i \in 1..Len(kept) |-> IF kept[i] = " " THEN "-" ELSE kept[i]]

(***************************************************************************)
(* The Slugger of github-slugger: occurrences maps every slug handed out   *)
(* to a counter.                                                           *)
(***************************************************************************)
\* new Slugger(): this.occurrences = Object.create(null)
NewSlugger == [s \in {} |-> 0]

Put(occ, key, val) ==
  [k \in DOMAIN occ \cup {key} |-> IF k = key THEN val ELSE occ[k]]

\* Mutant of Disambiguate: an if in place of the while, one suffix attempt only.
DisambiguateOnce(occ, originalSlug, result) ==
  IF result \in DOMAIN occ
  THEN LET n == occ[originalSlug] + 1
       IN [occ |-> Put(occ, originalSlug, n),
           result |-> originalSlug \o <<"-">> \o NumberToString(n), tries |-> 1]
  ELSE [occ |-> occ, result |-> result, tries |-> 0]

RECURSIVE DisambiguateChaining(_, _, _)
\* Mutant of Disambiguate: the suffix is appended to the last result tried, not
\* to the original slug.
DisambiguateChaining(occ, originalSlug, result) ==
  IF result \in DOMAIN occ
  THEN LET n == occ[originalSlug] + 1
           r == DisambiguateChaining(Put(occ, originalSlug, n), originalSlug,
                                     result \o <<"-">> \o NumberToString(n))
       IN [r EXCEPT !.tries = @ + 1]
  ELSE [occ |-> occ, result |-> result, tries |-> 0]

RECURSIVE DisambiguateDescending(_, _, _)
\* Mutant of Disambiguate: the suffix counts down from 9 as the counter goes up.
DisambiguateDescending(occ, originalSlug, result) ==
  IF result \in DOMAIN occ
  THEN LET n == occ[originalSlug] + 1
           r == DisambiguateDescending(Put(occ, originalSlug, n), originalSlug,
                                       originalSlug \o <<"-">> \o NumberToString(9 - n))
       IN [r EXCEPT !.tries = @ + 1]
  ELSE [occ |-> occ, result |-> result, tries |-> 0]

RECURSIVE Disambiguate(_, _, _)
\* while (own.call(occurrences, result)) {
\*   occurrences[originalSlug]++; result = originalSlug + '-' + occurrences[originalSlug] }
\* tries counts the passes through the loop body.
Disambiguate(occ, originalSlug, result) ==
  IF result \in DOMAIN occ
  THEN LET n == occ[originalSlug] + 1
           r == Disambiguate(Put(occ, originalSlug, n), originalSlug,
                             originalSlug \o <<"-">> \o NumberToString(n))
       IN [r EXCEPT !.tries = @ + 1]
  ELSE [occ |-> occ, result |-> result, tries |-> 0]

\* Mutant of SluggerSlug: a new slug's counter starts at 1, not 0.
SluggerSlugFromOne(occ, value) ==
  LET originalSlug == slug(value)
      r == Disambiguate(occ, originalSlug, originalSlug)
  IN [slug |-> r.result, occ |-> Put(r.occ, r.result, 1), tries |-> r.tries]

\* Mutant of SluggerSlug: a suffixed slug handed out is not entered in the registry.
SluggerSlugBasesOnly(occ, value) ==
  LET originalSlug == slug(value)
      r == Disambiguate(occ, originalSlug, originalSlug)
  IN [slug |-> r.result,
      occ |-> IF r.result = originalSlug THEN Put(r.occ, r.result, 0) ELSE r.occ,
      tries |-> r.tries]

\* slugger.slug(value): the slug handed out and the registry afterwards.
SluggerSlug(occ, value) ==
  LET originalSlug == slug(value)
      r == Disambiguate(occ, originalSlug, originalSlug)
  IN [slug |-> r.result, occ |-> Put(r.occ, r.result, 0), tries |-> r.tries]

(***************************************************************************)
(* Document trees (mdast).                                                 *)
(***************************************************************************)
\* hasChildren tells whether the node has a children property at all; children is
\* the list when it has one.
Node(type, children, value, depth, data) ==
  [type |-> type, children |-> children, value |-> value, depth |-> depth,
   data |-> data, hasChildren |-> TRUE]

\* A node whose children property is undefined.
WithoutChildren(n) == [n EXCEPT !.children = <<>>, !.hasChildren = FALSE]

Text(v) == WithoutChildren(Node("text", <<>>, <<v>>, 0, <<>>))
InlineCode(v) == WithoutChildren(Node("inlineCode", <<>>, <<v>>, 0, <<>>))
\* A text node whose value property is undefined.
TextWithoutValue == WithoutChildren(Node("text", <<>>, <<>>, 0, <<>>))
Emphasis(kids) == Node("emphasis", kids, <<>>, 0, <<>>)
Link(kids) == Node("link", kids, <<>>, 0, <<>>)
Image == WithoutChildren(Node("image", <<>>, <<>>, 0, <<>>))
Paragraph(kids) == Node("paragraph", kids, <<>>, 0, <<>>)
Blockquote(kids) == Node("blockquote", kids, <<>>, 0, <<>>)
ListItem(kids) == Node("listItem", kids, <<>>, 0, <<>>)
List(kids) == Node("list", kids, <<>>, 0, <<>>)
Heading(depth, kids, data) == Node("heading", kids, <<>>, depth, data)
Root(kids) == Node("root", kids, <<>>, 0, <<>>)

\* node.data of a heading: {id?, hName?, hProperties?: {id?, className?}}
Data(id, hName, hProperties) ==
  [id |-> id, hName |-> hName, hProperties |-> hProperties]
Props(id, className) == [id |-> id, className |-> className]

RECURSIVE NodeAt(_, _)
\* The node at a path below node t.
NodeAt(t, path) ==
  IF path = <<>> THEN t ELSE NodeAt(t.children[Head(path)], Tail(path))

RECURSIVE SetAt(_, _, _)
\* The tree t with the node at a path replaced (an in-place write to that node).
SetAt(t, path, n) ==
  IF path = <<>> THEN n
  ELSE [t EXCEPT !.children[Head(path)] = SetAt(@, Tail(path), n)]

\* Paths of the children of the node at a path, in child order.
ChildPaths(t, path) ==
  [i \in 1..Len(NodeAt(t, path).children) |-> Append(path, i)]

(***************************************************************************)
(* The visitor of remarkAsciiSlugs.                                        *)
(***************************************************************************)
\* c.value of a child as join("") renders it (undefined renders as "").
ValueOf(c) == IF c.value = <<>> THEN <<>> ELSE c.value[1]

\* node.children.filter(c => c.type === "text" || c.type === "inlineCode")
QualifyingChildren(node) ==
  SelectSeq(node.children, LAMBDA c : c.type = "text" \/ c.type = "inlineCode")

RECURSIVE DeepText(_)
\* The text of a node and of everything nested in it.
DeepText(node) ==
  IF node.value # <<>> THEN node.value[1]
  ELSE Join([i \in 1..Len(node.children) |-> DeepText(node.children[i])])

\* Mutant of HeadingText: the text nested in every child is collected.
HeadingTextDeep(node) == DeepText(node)

\* Mutant of HeadingText: the id already stored on the node comes first.
HeadingTextAfterId(node) ==
  LET kept == QualifyingChildren(node)
      id == IF node.data = <<>> \/ node.data[1].id = <<>> THEN <<>> ELSE node.data[1].id[1]
  IN id \o Join([i \in 1..Len(kept) |-> ValueOf(kept[i])])

\* const text = node.children.filter(...).map(c => c.value).join("")
HeadingText(node) ==
  LET kept == QualifyingChildren(node)
  IN Join([i \in 1..Len(kept) |-> ValueOf(kept[i])])

\* Mutant of WriteSlug: the heading's depth is appended to the slug written.
WriteSlugWithDepth(node, s) ==
  LET d1 == IF node.data = <<>> THEN Data(<<>>, <<>>, <<>>) ELSE node.data[1]
      d2 == IF d1.hProperties = <<>>
            THEN [d1 EXCEPT !.hProperties = <<Props(<<>>, <<>>)>>]
            ELSE d1
      sd == s \o NumberToString(node.depth)
      d3 == [d2 EXCEPT !.hProperties = <<[d2.hProperties[1] EXCEPT !.id = <<sd>>]>>]
      d4 == [d3 EXCEPT !.id = <<sd>>]
  IN [node EXCEPT !.data = <<d4>>]

\* Mutant of WriteSlug: data and hProperties are replaced by new objects.
WriteSlugReplacing(node, s) ==
  [node EXCEPT !.data = <<Data(<<s>>, <<>>, <<Props(<<s>>, <<>>)>>)>>]

\* Mutant of WriteSlug: node.data.id is not written.
WriteSlugPropsOnly(node, s) ==
  LET d1 == IF node.data = <<>> THEN Data(<<>>, <<>>, <<>>) ELSE node.data[1]
      d2 == IF d1.hProperties = <<>>
            THEN [d1 EXCEPT !.hProperties = <<Props(<<>>, <<>>)>>]
            ELSE d1
      d3 == [d2 EXCEPT !.hProperties = <<[d2.hProperties[1] EXCEPT !.id = <<s>>]>>]
  IN [node EXCEPT !.data = <<d3>>]

\* Mutant of WriteSlug: the filtered children are assigned back to the node.
WriteSlugFilteringChildren(node, s) ==
  LET d1 == IF node.data = <<>> THEN Data(<<>>, <<>>, <<>>) ELSE node.data[1]
      d2 == IF d1.hProperties = <<>>
            THEN [d1 EXCEPT !.hProperties = <<Props(<<>>, <<>>)>>]
            ELSE d1
      d3 == [d2 EXCEPT !.hProperties = <<[d2.hProperties[1] EXCEPT !.id = <<s>>]>>]
      d4 == [d3 EXCEPT !.id = <<s>>]
  IN [node EXCEPT !.data = <<d4>>, !.children = QualifyingChildren(node)]

\* if (!node.data) node.data = {}; if (!node.data.hProperties) node.data.hProperties = {};
\* node.data.hProperties.id = slug; node.data.id = slug
WriteSlug(node, s) ==
  LET d1 == IF node.data = <<>> THEN Data(<<>>, <<>>, <<>>) ELSE node.data[1]
      d2 == IF d1.hProperties = <<>>
            THEN [d1 EXCEPT !.hProperties = <<Props(<<>>, <<>>)>>]
            ELSE d1
      d3 == [d2 EXCEPT !.hProperties = <<[d2.hProperties[1] EXCEPT !.id = <<s>>]>>]
      d4 == [d3 EXCEPT !.id = <<s>>]
  IN [node EXCEPT !.data = <<d4>>]

\* Mutant of SluggerOf: one Slugger at module level, reset at each call.
SluggerShared(d) == 1

\* const slugger = new Slugger() inside the transformer: invocation d has the
\* Slugger of its own call.
SluggerOf(d) == d

\* Mutant of Registry: slugger.slug reads the registry of the first invocation.
RegistryOfFirst(occ, d) == occ[1]

\* The registry slugger.slug reads in invocation d.
Registry(occ, d) == occ[SluggerOf(d)]

RECURSIVE NextHeadingBreadthFirst(_, _)
\* Mutant of NextHeading: the children of a node are entered after the pending nodes.
NextHeadingBreadthFirst(t, stk) ==
  IF stk = <<>> THEN [found |-> FALSE, path |-> <<>>, rest |-> <<>>]
  ELSE LET path == Head(stk)
       IN IF NodeAt(t, path).type = "heading"
          THEN [found |-> TRUE, path |-> path, rest |-> Tail(stk)]
          ELSE NextHeadingBreadthFirst(t, Tail(stk) \o ChildPaths(t, path))

RECURSIVE NextHeadingAgain(_, _)
\* Mutant of NextHeading: the heading found stays among the pending nodes.
NextHeadingAgain(t, stk) ==
  IF stk = <<>> THEN [found |-> FALSE, path |-> <<>>, rest |-> <<>>]
  ELSE LET path == Head(stk)
       IN IF NodeAt(t, path).type = "heading"
          THEN [found |-> TRUE, path |-> path, rest |-> stk]
          ELSE NextHeadingAgain(t, ChildPaths(t, path) \o Tail(stk))

RECURSIVE NextHeading(_, _)
\* visit(tree, "heading", visitor): from the pending nodes, walk depth first, parent
\* before children and children in order, to the next node whose type is heading.
NextHeading(t, stk) ==
  IF stk = <<>> THEN [found |-> FALSE, path |-> <<>>, rest |-> <<>>]
  ELSE LET path == Head(stk)
       IN IF NodeAt(t, path).type = "heading"
          THEN [found |-> TRUE, path |-> path, rest |-> Tail(stk)]
          ELSE NextHeading(t, ChildPaths(t, path) \o Tail(stk))

(***************************************************************************)
(* The documents the pipeline hands to the transformer.                    *)
(***************************************************************************)
SeqsUpTo(S, n) == UNION {[1..k -> S] : k \in 0..n}

str_a == <<"a">>
str_b == <<"b">>
str_a1 == <<"a", "-", "1">>
str_Secao1 == <<"S", "e", c_cedil, a_tilde, "o", " ", "1">>
str_VisaoGeral == <<"V", "i", "s", a_tilde, "o", " ", "G", "e", "r", "a", "l">>
str_Nivel1 ==
  <<"N", i_acute, "v", "e", "l", " ", "1", ":", " ",
   "r", "o", "t", "a", "s", " ", arrow, " ",
   "c", "o", "n", "t", "r", "o", "l", "l", "e", "r", " ", arrow, " ", "m", "o", "d", "e", "l">>
str_Arquitetura == <<"A", "r", "q", "u", "i", "t", "e", "t", "u", "r", "a", " ">>
str_TypesFirst == <<"t", "y", "p", "e", "s", "-", "f", "i", "r", "s", "t">>
str_Soren == <<"S", o_slash, "r", "e", "n">>
str_Introducao == <<"I", "n", "t", "r", "o", "d", "u", c_cedil, a_tilde, "o">>

EmptyTree == Root(<<>>)

\* Registry documents: flat documents of headings whose texts are "a", "a-1"
\* (in two children), "A" (after a skipped emphasis child) and "" (an image only).
RegHeadings ==
  {Heading(2, <<Text(str_a)>>, <<>>),
   Heading(3, <<Text(str_a), InlineCode(<<"-", "1">>)>>, <<>>),
   Heading(2, <<Emphasis(<<Text(str_b)>>), Text(<<"A">>)>>, <<>>),
   Heading(2, <<Image>>, <<>>)}

RegTrees == {Root(hs) : hs \in SeqsUpTo(RegHeadings, MaxHeadings)}

\* Paired documents: two documents processed by the same transformer, with the
\* texts "a" and "a-1" held by different children in the one and in the other.
PairHeadingsA ==
  {Heading(2, <<Text(str_a)>>, <<>>),
   Heading(3, <<Text(str_a), InlineCode(<<"-", "1">>)>>, <<>>)}

PairHeadingsB ==
  {Heading(2, <<Emphasis(<<Text(str_b)>>), Text(str_a)>>, <<>>),
   Heading(2, <<Text(str_a1)>>, <<>>)}

PairTreesA == {Root(hs) : hs \in SeqsUpTo(PairHeadingsA, MaxHeadings)}
PairTreesB == {Root(hs) : hs \in SeqsUpTo(PairHeadingsB, MaxHeadings)}

\* Nested documents: headings at the top level, inside block quotes and inside
\* list items, between paragraphs.
NestHeadings ==
  {Heading(2, <<Text(str_a)>>, <<>>), Heading(3, <<Text(str_a1)>>, <<>>)}

NestLeaves == NestHeadings \cup {Paragraph(<<Text(str_a)>>)}

NestBlocks ==
  NestLeaves
    \cup {Blockquote(<<b>>) : b \in NestLeaves}
    \cup {Blockquote(<<g, h>>) : g \in NestHeadings, h \in NestHeadings}
    \cup {List(<<ListItem(<<h>>)>>) : h \in NestHeadings}

NestTrees == {Root(bs) : bs \in SeqsUpTo(NestBlocks, MaxBlocks)}

\* Rich-heading documents: one heading with any children and any data.
Inlines ==
  {Text(str_a), Text(str_b), InlineCode(str_a), InlineCode(str_b),
   Emphasis(<<Text(str_b)>>), Link(<<Text(str_a)>>), Image}

DataVariants ==
  {<<>>,
   <<Data(<<>>, <<>>, <<>>)>>,
   <<Data(<<>>, <<"h2">>, <<>>)>>,
   <<Data(<<>>, <<>>, <<Props(<<>>, <<"title">>)>>)>>,
   <<Data(<<str_b>>, <<"h2">>, <<Props(<<str_b>>, <<"title">>)>>)>>}

RichTrees ==
  {Root(<<Heading(1, kids, data)>>) :
     kids \in SeqsUpTo(Inlines, MaxKids), data \in DataVariants}

\* Text documents: one heading with one text child.
Alphabet == {"a", "A", a_acute, A_acute, " ", "-", "1", "!"}

TextTrees ==
  {Root(<<Heading(2, <<Text(t)>>, <<>>)>>) : t \in SeqsUpTo(Alphabet, MaxTextLen)}

\* Malformed documents: headings with an empty children list, with a text child
\* that has no value, and with no children property at all.
MalformedHeadings ==
  {Heading(2, <<>>, <<>>),
   Heading(2, <<TextWithoutValue>>, <<>>),
   Heading(2, <<TextWithoutValue, Text(str_a)>>, <<>>),
   WithoutChildren(Heading(2, <<>>, <<>>)),
   Heading(2, <<Text(str_a)>>, <<>>)}

MalformedTrees == {Root(hs) : hs \in SeqsUpTo(MalformedHeadings, MaxBlocks)}

\* The documents of the examples.
Secao1Tree == Root(<<Heading(2, <<Text(str_Secao1)>>, <<>>)>>)
VisaoGeralTree ==
  Root(<<Heading(2, <<Text(str_VisaoGeral)>>, <<>>), Paragraph(<<Text(str_a)>>),
         Heading(2, <<Text(str_VisaoGeral)>>, <<>>)>>)
Nivel1Tree == Root(<<Heading(3, <<Text(str_Nivel1)>>, <<>>)>>)
TypesFirstTree ==
  Root(<<Heading(3, <<Text(str_Arquitetura), Emphasis(<<Text(str_TypesFirst)>>)>>, <<>>)>>)
SorenTree == Root(<<Heading(2, <<Text(str_Soren)>>, <<>>)>>)
IntroducaoTree == Root(<<Heading(2, <<Text(str_Introducao)>>, <<>>)>>)

\* The pairs of documents two invocations are given.
DocPairs ==
  (PairTreesA \X PairTreesB)
    \cup ((RegTrees \cup NestTrees \cup RichTrees \cup TextTrees \cup MalformedTrees
             \cup {Secao1Tree, VisaoGeralTree, Nivel1Tree, TypesFirstTree, SorenTree})
          \X {EmptyTree})
    \cup {<<IntroducaoTree, IntroducaoTree>>}

(***************************************************************************)
(* Actions.                                                                *)
(***************************************************************************)
Init ==
  /\ tree \in DocPairs
  /\ parsed = tree
  /\ occurrences = [d \in Invocations |-> NewSlugger]
  /\ stack = [d \in Invocations |-> <<>>]
  /\ pc = [d \in Invocations |-> "idle"]
  /\ log = [d \in Invocations |-> <<>>]
  /\ runs = [d \in Invocations |-> 0]
  /\ given = tree

\* The transformer is called on a tree, for the first time or again on the tree a
\* call has returned from: a new Slugger, and visit() starts at the root.
Start(d) ==
  /\ pc[d] = "idle" \/ (pc[d] = "done" /\ runs[d] < MaxRuns)
  /\ pc' = [pc EXCEPT ![d] = "visiting"]
  /\ occurrences' = [occurrences EXCEPT ![SluggerOf(d)] = NewSlugger]
  /\ stack' = [stack EXCEPT ![d] = << <<>> >>]
  /\ log' = [log EXCEPT ![d] = <<>>]
  /\ runs' = [runs EXCEPT ![d] = @ + 1]
  /\ given' = [given EXCEPT ![d] = tree[d]]
  /\ UNCHANGED <<tree, parsed>>

\* visit() reaches the next heading and calls the visitor on it. Each const of
\* the visitor is bound once, to its value.
VisitHeading(d) ==
  /\ pc[d] = "visiting"
  /\ \E next \in {NextHeading(tree[d], stack[d])} :
       /\ next.found
       /\ \E node \in {NodeAt(tree[d], next.path)} :
            /\ node.hasChildren
            /\ \E text \in {HeadingText(node)} :
               \E stripped \in {stripDiacritics(text)} :
               \E r \in {SluggerSlug(Registry(occurrences, d), stripped)} :
                 /\ tree' = [tree EXCEPT ![d] =
                               SetAt(@, next.path, WriteSlug(node, r.slug))]
                 /\ occurrences' = [occurrences EXCEPT ![SluggerOf(d)] = r.occ]
                 /\ stack' = [stack EXCEPT ![d] =
                                ChildPaths(tree[d], next.path) \o next.rest]
                 /\ log' = [log EXCEPT ![d] =
                              Append(@, [path |-> next.path, text |-> text,
                                         base |-> slug(stripped), slug |-> r.slug,
                                         tries |-> r.tries])]
  /\ UNCHANGED <<parsed, pc, runs, given>>

\* visit() reaches a heading without a children property: node.children.filter
\* throws a TypeError, which leaves visit() and the transformer; the heading and
\* those after it are not written.
Throw(d) ==
  /\ pc[d] = "visiting"
  /\ LET next == NextHeading(tree[d], stack[d])
     IN /\ next.found
        /\ ~NodeAt(tree[d], next.path).hasChildren
  /\ pc' = [pc EXCEPT ![d] = "failed"]
  /\ stack' = [stack EXCEPT ![d] = <<>>]
  /\ UNCHANGED <<tree, parsed, occurrences, log, runs, given>>

\* visit() finds no further heading: the transformer returns.
Return(d) ==
  /\ pc[d] = "visiting"
  /\ ~NextHeading(tree[d], stack[d]).found
  /\ pc' = [pc EXCEPT ![d] = "done"]
  /\ stack' = [stack EXCEPT ![d] = <<>>]
  /\ UNCHANGED <<tree, parsed, occurrences, log, runs, given>>

Next == \E d \in Invocations : Start(d) \/ VisitHeading(d) \/ Throw(d) \/ Return(d)

Spec == Init /\ [][Next]_vars

\* The documents whose shape decides how long a call runs: the registry documents
\* (repeated and clashing slugs), the documents of one nested block (the
\* traversal) and the documents with a heading that makes the visitor throw, each
\* next to an empty document or, for the last, next to a copy of itself.
LiveDocPairs ==
  ((RegTrees \cup {Root(<<b>>) : b \in NestBlocks} \cup MalformedTrees) \X {EmptyTree})
    \cup {<<t, t>> : t \in MalformedTrees}

LiveInit == Init /\ tree \in LiveDocPairs

\* The transformer is synchronous: once called, it runs until it returns or throws.
FairSpec ==
  /\ LiveInit
  /\ [][Next]_vars
  /\ \A d \in Invocations : WF_vars(VisitHeading(d) \/ Throw(d) \/ Return(d))

(***************************************************************************)
(* Notions the properties are stated in.                                   *)
(***************************************************************************)
RECURSIVE HeadingPathsFrom(_, _)
\* The paths of the heading nodes below t, in document pre-order.
HeadingPathsFrom(t, path) ==
  (IF t.type = "heading" THEN <<path>> ELSE <<>>)
    \o Join([i \in 1..Len(t.children) |->
               HeadingPathsFrom(t.children[i], Append(path, i))])

HeadingPaths(t) == HeadingPathsFrom(t, <<>>)

\* node.data.id, as an optional value.
IdOf(node) == IF node.data = <<>> THEN <<>> ELSE node.data[1].id

\* node.data.hProperties.id, as an optional value.
PropsIdOf(node) ==
  IF node.data = <<>> \/ node.data[1].hProperties = <<>> THEN <<>>
  ELSE node.data[1].hProperties[1].id

\* 'b-n'
Suffixed(b, n) == b \o <<"-">> \o NumberToString(n)

\* The slugs the headings of a tree carry, in document pre-order.
SlugsIn(t) ==
  LET hp == HeadingPaths(t) IN [i \in 1..Len(hp) |-> IdOf(NodeAt(t, hp[i]))]

\* The base slugs and the slugs of the visitor calls of invocation d so far.
BasesOf(d) == [i \in 1..Len(log[d]) |-> log[d][i].base]
EmittedOf(d) == [i \in 1..Len(log[d]) |-> log[d][i].slug]

\* How many visitor calls of invocation d before the i-th had the same base slug.
EarlierSameBase(d, i) ==
  Cardinality({j \in 1..(i - 1) : log[d][j].base = log[d][i].base})

(***************************************************************************)
(* Properties.                                                             *)
(***************************************************************************)
\* C1: after an invocation, no two heading nodes of its tree carry the same slug.
C1_SlugsPairwiseDistinct ==
  \A d \in Invocations :
    pc[d] = "done" =>
      LET ids == SlugsIn(tree[d])
      IN \A i, j \in 1..Len(ids) : i # j => ids[i] # ids[j]

\* C1 witness: headings with base slugs a, a-1, a end as a, a-1, a-2.
C1_Witness ==
  /\ pc[1] = "done"
  /\ BasesOf(1) = <<str_a, str_a1, str_a>>
  /\ SlugsIn(tree[1]) = << <<str_a>>, <<str_a1>>, <<Suffixed(str_a, 2)>> >>

\* C2 (as claimed): after an invocation every heading carries a non-empty slug,
\* also a heading without text or inlineCode children.
C2_EverySlugNonEmpty ==
  \A d \in Invocations :
    pc[d] = "done" =>
      LET ids == SlugsIn(tree[d])
      IN \A i \in 1..Len(ids) : ids[i] # <<>> /\ ids[i][1] # <<>>

\* C3 (as claimed): the (k+1)-th heading with base slug b is emitted as 'b-k',
\* whatever the other headings of the document are.
C3_RepeatNumberedByCount ==
  \A d \in Invocations :
    \A i \in 1..Len(log[d]) :
      LET k == EarlierSameBase(d, i)
      IN k >= 1 => log[d][i].slug = Suffixed(log[d][i].base, k)

\* No earlier heading of another base slug was emitted as b or as 'b-j', j in 1..k.
NoForeignClash(d, i, k) ==
  LET b == log[d][i].base
  IN \A j \in 1..(i - 1) :
       log[d][j].base # b =>
         /\ log[d][j].slug # b
         /\ \A m \in 1..k : log[d][j].slug # Suffixed(b, m)

\* C3 (amended): the (k+1)-th heading with base slug b is emitted as 'b-N' with
\* N >= k, and as 'b-k' when no earlier heading of another base slug was emitted
\* as b or as 'b-j' with j in 1..k.
C3_RepeatNumberedFromCount ==
  \A d \in Invocations :
    \A i \in 1..Len(log[d]) :
      LET k == EarlierSameBase(d, i)
          b == log[d][i].base
      IN k >= 1 =>
           /\ \E n \in k..(2 * Len(log[d])) : log[d][i].slug = Suffixed(b, n)
           /\ NoForeignClash(d, i, k) => log[d][i].slug = Suffixed(b, k)

\* C3 witness: two headings titled "Visao Geral" (with a tilde) end as visao-geral
\* and visao-geral-1.
C3_Witness ==
  /\ pc[1] = "done"
  /\ parsed[1] = VisaoGeralTree
  /\ SlugsIn(tree[1]) =
       << << <<"v", "i", "s", "a", "o", "-", "g", "e", "r", "a", "l">> >>,
          << <<"v", "i", "s", "a", "o", "-", "g", "e", "r", "a", "l", "-", "1">> >> >>

RECURSIVE SlugsAloneFrom(_, _)
\* The slugs one slugger hands out for a sequence of heading texts, one after the other.
SlugsAloneFrom(occ, texts) ==
  IF texts = <<>> THEN <<>>
  ELSE LET r == SluggerSlug(occ, stripDiacritics(Head(texts)))
       IN <<r.slug>> \o SlugsAloneFrom(r.occ, Tail(texts))

\* The heading texts of a tree, in document pre-order.
TextsOf(t) ==
  LET hp == HeadingPaths(t) IN [i \in 1..Len(hp) |-> HeadingText(NodeAt(t, hp[i]))]

\* The slugs of a document processed alone, by an invocation with a slugger of its own.
SlugsAlone(t) == SlugsAloneFrom(NewSlugger, TextsOf(t))

\* C4: whatever the other invocation does meanwhile, an invocation emits for its
\* document the slugs the document gets when processed alone, and leaves them on
\* the tree.
C4_NoLeakBetweenInvocations ==
  \A d \in Invocations :
    LET alone == SlugsAlone(parsed[d])
    IN /\ Len(log[d]) <= Len(alone)
       /\ EmittedOf(d) = SubSeq(alone, 1, Len(log[d]))
       /\ pc[d] = "done" =>
            SlugsIn(tree[d]) = [i \in 1..Len(alone) |-> <<alone[i]>>]

\* C4 witness: invocation 2 has finished a document whose first two headings got a
\* and a-1 while invocation 1 is in the middle of its pass and has emitted a too.
C4_Witness ==
  /\ pc[1] = "visiting" /\ Len(log[1]) = 1 /\ log[1][1].slug = str_a
  /\ Len(HeadingPaths(tree[1])) >= 2
  /\ pc[2] = "done" /\ Len(log[2]) >= 2
  /\ log[2][1].slug = str_a /\ log[2][2].slug = str_a1

\* C5: two invocations on trees with the same heading texts in the same order end
\* with the same slugs, heading by heading.
C5_Deterministic ==
  (pc[1] = "done" /\ pc[2] = "done" /\ TextsOf(parsed[1]) = TextsOf(parsed[2]))
    => SlugsIn(tree[1]) = SlugsIn(tree[2])

\* C5 witness: two different trees with the same three heading texts, both done.
C5_Witness ==
  /\ pc[1] = "done" /\ pc[2] = "done"
  /\ parsed[1] # parsed[2]
  /\ TextsOf(parsed[1]) = <<str_a, str_a1, str_a>>
  /\ TextsOf(parsed[2]) = <<str_a, str_a1, str_a>>
  /\ SlugsIn(tree[2]) = << <<str_a>>, <<str_a1>>, <<Suffixed(str_a, 2)>> >>

\* Letters and digits of the model's characters, and the unaccented base letter.
Letters ==
  {"a", "b", "c", "d", "e", "g", "i", "l", "n", "o", "r", "s", "t", "u", "v",
   "A", "B", "G", "I", "N", "S", "V", a_acute, A_acute, a_tilde, c_cedil, i_acute,
   o_slash}

Digits == {DigitChar[i] : i \in DOMAIN DigitChar}

BaseLetter(c) ==
  CASE c = a_acute -> "a"
    [] c = A_acute -> "A"
    [] c = a_tilde -> "a"
    [] c = c_cedil -> "c"
    [] c = i_acute -> "i"
    [] OTHER -> c

Unaccented(text) == [i \in 1..Len(text) |-> BaseLetter(text[i])]

\* A text of letters, digits and single spaces.
PlainText(text) ==
  \A i \in 1..Len(text) :
    /\ text[i] \in Letters \cup Digits \cup {" "}
    /\ i < Len(text) => ~(text[i] = " " /\ text[i + 1] = " ")

\* C6: for a heading text of letters, digits and single spaces, the base slug is
\* the slugifier's slug of the text with every accented letter replaced by its
\* base letter, and the first heading of a document is emitted with that slug.
C6_DiacriticsRemoved ==
  \A d \in Invocations :
    \A i \in 1..Len(log[d]) :
      LET e == log[d][i]
      IN PlainText(e.text) =>
           /\ e.base = slug(Unaccented(e.text))
           /\ i = 1 => IdOf(NodeAt(tree[d], e.path)) = <<slug(Unaccented(e.text))>>

\* C6 witness: the heading "Secao 1" (with cedilla and tilde) ends as secao-1.
C6_Witness ==
  /\ pc[1] = "done"
  /\ TextsOf(parsed[1]) = <<str_Secao1>>
  /\ SlugsIn(tree[1]) = << << <<"s", "e", "c", "a", "o", "-", "1">> >> >>

RECURSIVE DirectText(_)
\* The values of the text and inlineCode nodes of a list of children, in order.
DirectText(kids) ==
  IF kids = <<>> THEN <<>>
  ELSE (IF Head(kids).type \in {"text", "inlineCode"} /\ Head(kids).value # <<>>
        THEN Head(kids).value[1]
        ELSE <<>>) \o DirectText(Tail(kids))

\* C7: the text a heading is slugged from is the concatenation of the values of
\* its direct text and inlineCode children; other children contribute nothing.
C7_DirectChildrenOnly ==
  \A d \in Invocations :
    \A i \in 1..Len(log[d]) :
      LET e == log[d][i]
          direct == DirectText(NodeAt(parsed[d], e.path).children)
      IN /\ e.text = direct
         /\ i = 1 => IdOf(NodeAt(tree[d], e.path)) = <<slug(stripDiacritics(direct))>>

\* C7 witness: a heading with a text child a and an emphasis child holding b ends
\* with the slug a.
C7_Witness ==
  /\ pc[1] = "done"
  /\ parsed[1] = Root(<<Heading(1, <<Text(str_a), Emphasis(<<Text(str_b)>>)>>, <<>>)>>)
  /\ SlugsIn(tree[1]) = << <<str_a>> >>

\* The base slug of the heading at a path of a tree.
BaseAt(t, path) == slug(stripDiacritics(HeadingText(NodeAt(t, path))))

\* Slug s1 is the unsuffixed base b or has a lower number than slug s2.
LowerNumbered(b, s1, s2, max) ==
  \/ s1 = b /\ s2 # b
  \/ \E m, n \in 1..max : m < n /\ s1 = Suffixed(b, m) /\ s2 = Suffixed(b, n)

\* C8: the visitor is called on the headings of the tree in document pre-order,
\* each once and at any depth; of two headings with the same base slug the
\* earlier in pre-order carries the unsuffixed or lower-numbered slug.
C8_EveryHeadingInPreOrder ==
  \A d \in Invocations :
    LET hp == HeadingPaths(parsed[d])
        ids == SlugsIn(tree[d])
    IN /\ Len(log[d]) <= Len(hp)
       /\ [i \in 1..Len(log[d]) |-> log[d][i].path] = SubSeq(hp, 1, Len(log[d]))
       /\ pc[d] = "done" =>
            /\ Len(log[d]) = Len(hp)
            /\ \A i, j \in 1..Len(hp) :
                 (i < j /\ BaseAt(parsed[d], hp[i]) = BaseAt(parsed[d], hp[j]))
                   => LowerNumbered(BaseAt(parsed[d], hp[i]), ids[i][1], ids[j][1],
                                    2 * Len(hp))

\* C8 witness: a heading inside a list item precedes a top-level heading of the
\* same text; the nested one ends as a, the later one as a-1.
C8_Witness ==
  /\ pc[1] = "done"
  /\ parsed[1] = Root(<<List(<<ListItem(<<Heading(2, <<Text(str_a)>>, <<>>)>>)>>),
                        Heading(2, <<Text(str_a)>>, <<>>)>>)
  /\ IdOf(NodeAt(tree[1], <<1, 1, 1>>)) = <<str_a>>
  /\ IdOf(NodeAt(tree[1], <<2>>)) = <<Suffixed(str_a, 1)>>

\* C9: every heading the visitor was called on has data and data.hProperties, and
\* data.hProperties.id = data.id = the slug computed for it; after the pass that
\* is every heading.
C9_SlugStoredTwice ==
  \A d \in Invocations :
    /\ \A i \in 1..Len(log[d]) :
         LET node == NodeAt(tree[d], log[d][i].path)
         IN /\ node.data # <<>>
            /\ node.data[1].hProperties # <<>>
            /\ IdOf(node) = <<log[d][i].slug>>
            /\ PropsIdOf(node) = <<log[d][i].slug>>
    /\ pc[d] = "done" =>
         \A i \in 1..Len(HeadingPaths(tree[d])) :
           LET node == NodeAt(tree[d], HeadingPaths(tree[d])[i])
           IN IdOf(node) # <<>> /\ PropsIdOf(node) = IdOf(node)

\* C9 witness: a heading that had data but no hProperties before the pass carries
\* the slug a in both places.
C9_Witness ==
  /\ pc[1] = "done"
  /\ parsed[1] = Root(<<Heading(1, <<Text(str_a)>>, <<Data(<<>>, <<"h2">>, <<>>)>>)>>)
  /\ IdOf(NodeAt(tree[1], <<1>>)) = <<str_a>>
  /\ PropsIdOf(NodeAt(tree[1], <<1>>)) = <<str_a>>

RECURSIVE WithoutHeadingData(_)
\* A tree with the data of every heading node blanked.
WithoutHeadingData(t) ==
  [t EXCEPT !.data = IF t.type = "heading" THEN <<>> ELSE @,
            !.children = [i \in 1..Len(t.children) |-> WithoutHeadingData(t.children[i])]]

\* C10: apart from the data of heading nodes, the tree is at every moment the
\* tree that was handed over: same nodes, same order, same fields.
C10_OnlyHeadingDataChanges ==
  \A d \in Invocations : WithoutHeadingData(tree[d]) = WithoutHeadingData(parsed[d])

\* C10 witness: a finished document with a paragraph and a block quote at the top
\* level, whose tree differs from the one handed over (a heading was written).
C10_Witness ==
  /\ pc[1] = "done"
  /\ tree[1] # parsed[1]
  /\ \E i \in 1..Len(parsed[1].children) : parsed[1].children[i].type = "paragraph"
  /\ \E i \in 1..Len(parsed[1].children) : parsed[1].children[i].type = "blockquote"

\* C11 (as claimed): no invocation fails, whatever the tree: a heading without
\* children or without text values takes the empty-text path, and after the
\* invocation every heading of the tree has a slug written.
C11_NoErrorOnAnyTree ==
  \A d \in Invocations :
    /\ pc[d] # "failed"
    /\ pc[d] = "done" =>
         \A i \in 1..Len(SlugsIn(tree[d])) : SlugsIn(tree[d])[i] # <<>>

\* The visitor is called at most once per heading, and the loop of slugger.slug
\* makes no more passes than slugs were registered before the call.
BoundedWork ==
  \A d \in Invocations :
    \A i \in 1..Len(log[d]) :
      /\ log[d][i].tries <= i - 1
      /\ \A j \in 1..Len(log[d]) : i # j => log[d][i].path # log[d][j].path

\* C12: an invocation that has started ends (it returns or it throws), having
\* called the visitor at most once per heading, with a bounded number of suffix
\* attempts in each call.
C12_Terminates ==
  /\ \A d \in Invocations : pc[d] = "visiting" ~> pc[d] \in {"done", "failed"}
  /\ []BoundedWork

\* C12 witness: a finished invocation in which the slugger's loop took two
\* passes for one heading (a after a and a-1).
C12_Witness ==
  /\ pc[1] = "done"
  /\ \E i \in 1..Len(log[1]) : log[1][i].tries = 2

(***************************************************************************)
(* C13: runs of separators.                                                *)
(***************************************************************************)
HasDoubleHyphen(s) == \E k \in 1..(Len(s) - 1) : s[k] = "-" /\ s[k + 1] = "-"

\* The characters of a heading text that reach the slug: marks and accents gone,
\* the characters the slugifier deletes gone.
KeptText(text) == SelectSeq(stripDiacritics(text), LAMBDA c : c \notin SluggerRemoved)

\* C13 as stated: a heading text without two hyphens in a row never gives a base
\* slug with two hyphens in a row (runs of spaces and removed symbols become a
\* single hyphen).
C13_RunsBecomeOneHyphen ==
  \A d \in Invocations :
    \A i \in 1..Len(log[d]) :
      ~HasDoubleHyphen(log[d][i].text) => ~HasDoubleHyphen(log[d][i].base)

\* C13 amended: every kept character gives one character of the base slug, a
\* hyphen exactly for a space or a hyphen, so the base slug has two hyphens in a
\* row exactly where the kept text has two spaces or hyphens in a row.
C13_OneHyphenPerSpace ==
  \A d \in Invocations :
    \A i \in 1..Len(log[d]) :
      LET kept == KeptText(log[d][i].text)
          base == log[d][i].base
      IN /\ Len(base) = Len(kept)
         /\ \A k \in 1..Len(kept) : (base[k] = "-") <=> (kept[k] \in {" ", "-"})
         /\ HasDoubleHyphen(base) <=>
              \E k \in 1..(Len(kept) - 1) :
                kept[k] \in {" ", "-"} /\ kept[k + 1] \in {" ", "-"}

\* The heading 'Nivel 1: rotas -> controller -> model' of the blog has been
\* slugged: an arrow between two spaces, and two hyphens in a row in the slug.
C13_Witness ==
  /\ pc[1] = "done"
  /\ \E i \in 1..Len(log[1]) :
       /\ log[1][i].text = str_Nivel1
       /\ ~HasDoubleHyphen(log[1][i].text)
       /\ HasDoubleHyphen(log[1][i].base)
       /\ log[1][i].slug =
            <<"n", "i", "v", "e", "l", "-", "1", "-", "r", "o", "t", "a", "s", "-", "-",
              "c", "o", "n", "t", "r", "o", "l", "l", "e", "r", "-", "-",
              "m", "o", "d", "e", "l">>

(***************************************************************************)
(* C14: leading and trailing hyphens.                                      *)
(***************************************************************************)
\* C14 as stated: no base slug begins or ends with a hyphen.
C14_NoEdgeHyphen ==
  \A d \in Invocations :
    \A i \in 1..Len(log[d]) :
      LET base == log[d][i].base
      IN base # <<>> => base[1] # "-" /\ base[Len(base)] # "-"

\* C14 amended: nothing is trimmed. The base slug is empty exactly when no
\* character of the text is kept, and otherwise begins (ends) with a hyphen
\* exactly when the first (last) kept character is a space or a hyphen.
C14_EdgesKept ==
  \A d \in Invocations :
    \A i \in 1..Len(log[d]) :
      LET kept == KeptText(log[d][i].text)
          base == log[d][i].base
      IN /\ (base = <<>>) <=> (kept = <<>>)
         /\ base # <<>> =>
              /\ (base[1] = "-") <=> (kept[1] \in {" ", "-"})
              /\ (base[Len(base)] = "-") <=> (kept[Len(kept)] \in {" ", "-"})

\* The heading 'Arquitetura *types-first*' has been slugged: its text ends with
\* the space before the skipped emphasis child, and its slug with a hyphen.
C14_Witness ==
  /\ pc[1] = "done"
  /\ parsed[1] = TypesFirstTree
  /\ \E i \in 1..Len(log[1]) :
       /\ log[1][i].text = str_Arquitetura
       /\ log[1][i].slug =
            <<"a", "r", "q", "u", "i", "t", "e", "t", "u", "r", "a", "-">>

(***************************************************************************)
(* C15: the characters of a slug.                                          *)
(***************************************************************************)
AsciiLower ==
  {"a", "b", "c", "d", "e", "f", "g", "h", "i", "j", "k", "l", "m", "n", "o", "p",
   "q", "r", "s", "t", "u", "v", "w", "x", "y", "z"}

\* C15: every emitted slug consists only of lower-case ASCII letters, digits,
\* hyphens and underscores.
C15_AsciiLowerOnly ==
  \A d \in Invocations :
    \A i \in 1..Len(log[d]) :
      \A k \in 1..Len(log[d][i].slug) :
        log[d][i].slug[k] \in AsciiLower \cup Digits \cup {"-", "_"}

(***************************************************************************)
(* C16: the first heading of a base slug.                                  *)
(***************************************************************************)
\* The slugs of the visitor calls of invocation d before the i-th.
EmittedBefore(d, i) == {log[d][j].slug : j \in 1..(i - 1)}

\* C16 as stated: the first heading of a document with base slug b is emitted
\* as b, whatever headings come before it.
C16_FirstIsBase ==
  \A d \in Invocations :
    \A i \in 1..Len(log[d]) :
      EarlierSameBase(d, i) = 0 => log[d][i].slug = log[d][i].base

\* C16 amended: the first heading with base slug b is emitted as b unless an
\* earlier heading was already emitted as b; then it is emitted as 'b-N' for
\* the least N >= 1 such that no earlier heading was emitted as 'b-N'.
C16_FirstIsBaseUnlessTaken ==
  \A d \in Invocations :
    \A i \in 1..Len(log[d]) :
      LET b == log[d][i].base
          taken == EmittedBefore(d, i)
      IN EarlierSameBase(d, i) = 0 =>
           IF b \notin taken THEN log[d][i].slug = b
           ELSE \E n \in 1..Len(log[d]) :
                  /\ log[d][i].slug = Suffixed(b, n)
                  /\ Suffixed(b, n) \notin taken
                  /\ \A m \in 1..(n - 1) : Suffixed(b, m) \in taken

\* Headings a, a, a-1 have been slugged a, a-1, a-1-1: the first heading with
\* base slug a-1 found a-1 taken by the repeat of a.
C16_Witness ==
  /\ pc[1] = "done"
  /\ BasesOf(1) = <<str_a, str_a, str_a1>>
  /\ EmittedOf(1) = <<str_a, str_a1, Suffixed(str_a1, 1)>>

(***************************************************************************)
(* C17: numbering is monotonic.                                            *)
(***************************************************************************)
\* Of two headings of an invocation with the same base slug b, the later one is
\* not emitted as b, and when both are emitted as 'b-N' the later number is higher.
SuffixesIncrease ==
  \A d \in Invocations :
    \A i, j \in 1..Len(log[d]) :
      (i < j /\ log[d][i].base = log[d][j].base) =>
        LET b == log[d][i].base
        IN /\ log[d][j].slug # b
           /\ \A m, n \in 1..(2 * Len(log[d])) :
                (log[d][i].slug = Suffixed(b, m) /\ log[d][j].slug = Suffixed(b, n))
                  => m < n

\* A step of a running invocation keeps every entry of its registry and lowers
\* no counter.
CountersGrow ==
  \A d \in Invocations :
    pc[d] = "visiting" =>
      \A b \in DOMAIN occurrences[d] :
        /\ b \in DOMAIN occurrences'[d]
        /\ occurrences'[d][b] >= occurrences[d][b]

\* C17: the numbers of the slugs 'b-N' given to the headings with base slug b
\* increase strictly in document order, and during an invocation the registry
\* counter of b never decreases and is never reset.
C17_NumberingMonotonic == []SuffixesIncrease /\ [][CountersGrow]_vars

\* Three headings with base slug a have been slugged a, a-1, a-2, and the counter
\* of a stands at 2.
C17_Witness ==
  /\ pc[1] = "done"
  /\ BasesOf(1) = <<str_a, str_a, str_a>>
  /\ EmittedOf(1) = <<str_a, Suffixed(str_a, 1), Suffixed(str_a, 2)>>
  /\ occurrences[1][str_a] = 2

(***************************************************************************)
(* C18: the shape of a slug.                                               *)
(***************************************************************************)
\* C18: the slug written on a heading is the base slug b of the heading's own
\* text, or b followed by '-N' for an integer N >= 1.
C18_BaseOrBaseN ==
  \A d \in Invocations :
    \A i \in 1..Len(log[d]) :
      LET b == BaseAt(parsed[d], log[d][i].path)
          s == IdOf(NodeAt(tree[d], log[d][i].path))
      IN \/ s = <<b>>
         \/ \E n \in 1..(2 * Len(log[d])) : s = <<Suffixed(b, n)>>

\* Headings a, a-1, a have been slugged: the third needed two passes of the
\* loop and carries a-2, its own base slug with a number.
C18_Witness ==
  /\ pc[1] = "done"
  /\ BasesOf(1) = <<str_a, str_a1, str_a>>
  /\ log[1][3].tries = 2
  /\ IdOf(NodeAt(tree[1], log[1][3].path)) = <<Suffixed(str_a, 2)>>

(***************************************************************************)
(* C19: a second call on the processed tree.                               *)
(***************************************************************************)
\* C19: a call of the transformer on a tree it has already processed writes on
\* every heading the slug the heading carried when the call began.
C19_SecondRunSameSlugs ==
  \A d \in Invocations :
    runs[d] >= 2 =>
      /\ \A i \in 1..Len(log[d]) :
           <<log[d][i].slug>> = IdOf(NodeAt(given[d], log[d][i].path))
      /\ pc[d] = "done" => SlugsIn(tree[d]) = SlugsIn(given[d])

\* The second call on a document with headings a, a-1, a has returned, and the
\* headings carry a, a-1, a-2 as after the first call.
C19_Witness ==
  /\ runs[1] = 2
  /\ pc[1] = "done"
  /\ BasesOf(1) = <<str_a, str_a1, str_a>>
  /\ SlugsIn(given[1]) = << <<str_a>>, <<str_a1>>, <<Suffixed(str_a, 2)>> >>
  /\ SlugsIn(tree[1]) = SlugsIn(given[1])

(***************************************************************************)
(* C20: what a heading already carried.                                    *)
(***************************************************************************)
\* node.data.hName and node.data.hProperties.className, as optional values.
HNameOf(node) == IF node.data = <<>> THEN <<>> ELSE node.data[1].hName
ClassNameOf(node) ==
  IF node.data = <<>> \/ node.data[1].hProperties = <<>> THEN <<>>
  ELSE node.data[1].hProperties[1].className

\* C20: on every heading the visitor was called on, the entries of data and of
\* data.hProperties other than id are those the heading had before the pass, both
\* ids are the computed slug whatever ids were there, and the registry holds the
\* slugs handed out in this call and nothing else.
C20_DataEntriesKept ==
  \A d \in Invocations :
    /\ \A i \in 1..Len(log[d]) :
         LET before == NodeAt(parsed[d], log[d][i].path)
             after == NodeAt(tree[d], log[d][i].path)
         IN /\ HNameOf(after) = HNameOf(before)
            /\ ClassNameOf(after) = ClassNameOf(before)
            /\ IdOf(after) = <<log[d][i].slug>>
            /\ PropsIdOf(after) = <<log[d][i].slug>>
    /\ DOMAIN occurrences[d] = {log[d][i].slug : i \in 1..Len(log[d])}

\* A heading that came with data {id: b, hName: h2, hProperties: {id: b,
\* className: title}} and the text a has been processed: both ids are a, hName
\* and className are kept, and b is not in the registry.
C20_Witness ==
  /\ pc[1] = "done"
  /\ parsed[1] =
       Root(<<Heading(1, <<Text(str_a)>>,
                      <<Data(<<str_b>>, <<"h2">>, <<Props(<<str_b>>, <<"title">>)>>)>>)>>)
  /\ NodeAt(tree[1], <<1>>).data =
       <<Data(<<str_a>>, <<"h2">>, <<Props(<<str_a>>, <<"title">>)>>)>>
  /\ str_b \notin DOMAIN occurrences[1]

(***************************************************************************)
(* C21: a slug depends on the texts up to its heading only.                *)
(***************************************************************************)
\* The first n elements of a sequence.
Prefix(s, n) == SubSeq(s, 1, n)

\* The smaller of two numbers.
Min(m, n) == IF m <= n THEN m ELSE n

\* C21: when the documents of the two invocations agree on the texts of their
\* first n headings, the first n slugs emitted agree, whatever headings follow
\* and however far the other headings have been processed; after both passes
\* the first n headings of the two trees carry the same slugs.
C21_PrefixDecidesSlugs ==
  /\ \A n \in 0..Min(Len(log[1]), Len(log[2])) :
       Prefix(TextsOf(parsed[1]), n) = Prefix(TextsOf(parsed[2]), n)
         => Prefix(EmittedOf(1), n) = Prefix(EmittedOf(2), n)
  /\ (pc[1] = "done" /\ pc[2] = "done") =>
       \A n \in 0..Min(Len(TextsOf(parsed[1])), Len(TextsOf(parsed[2]))) :
         Prefix(TextsOf(parsed[1]), n) = Prefix(TextsOf(parsed[2]), n)
           => Prefix(SlugsIn(tree[1]), n) = Prefix(SlugsIn(tree[2]), n)

\* Two finished documents of different trees with heading texts a, a and
\* a, a, a-1: the first two headings carry a and a-1 in both, and the third
\* heading of the second document carries a-1-1.
C21_Witness ==
  /\ pc[1] = "done" /\ pc[2] = "done"
  /\ TextsOf(parsed[1]) = <<str_a, str_a>>
  /\ TextsOf(parsed[2]) = <<str_a, str_a, str_a1>>
  /\ SlugsIn(tree[1]) = << <<str_a>>, <<str_a1>> >>
  /\ SlugsIn(tree[2]) = << <<str_a>>, <<str_a1>>, <<Suffixed(str_a1, 1)>> >>

=============================================================================
